---- MODULE Spec2Model ----
(***************************************************************************)
(* Model of the GrowthStack calculation engine, src/utils/financial.ts.    *)
(*                                                                         *)
(* calculateSIP is modelled statement by statement: one action for the     *)
(* initialisation (lines 33-60), one action per iteration of the monthly   *)
(* loop (lines 75-142) and one for the finalisation and return (lines      *)
(* 144-155).  The same loop body is also available as a pure operator      *)
(* (calculateSIP), so that two runs over different inputs can be compared.  *)
(*                                                                         *)
(* Numbers.  The engine computes in IEEE doubles.  The inputs enumerated   *)
(* here are integers, and the annual rates are multiples of 1200, so that  *)
(* monthlyRate = annualInterestRate / 12 / 100 is an integer too: on these *)
(* inputs every intermediate value of the loop is an integer far below     *)
(* 2^53 and the double arithmetic of the code is exact, hence equal to the *)
(* integer arithmetic used below.  Math.pow with a fractional exponent is  *)
(* not computed: a real value is kept as the triple it is computed from.   *)
(*                                                                         *)
(* An optional value (targetAmount?, inflationRate, goalAchievedMonth) is  *)
(* a sequence of length 0 (undefined) or 1 (the value).                    *)
(*                                                                         *)
(* generateCSV is modelled on the text it builds: the report is the        *)
(* sequence of its newline-terminated lines, a line is the sequence of its *)
(* comma-separated cells, and a cell is the sequence of the pieces of text *)
(* it is concatenated from, a number being written digit by digit.         *)
(*                                                                         *)
(* The form of src/App.tsx (handleInputChange, handleReset, addLumpsum,    *)
(* removeLumpsum) is modelled by SpecApp: its actions change the           *)
(* CalculatorState that the next render passes to calculateSIP.            *)
(***************************************************************************)
EXTENDS Integers, Sequences, FiniteSets, TLC

VARIABLES
    state,                      \* the CalculatorState passed to calculateSIP
    pc,                         \* "start", "loop", "done"
    m,                          \* loop counter of line 75
    totalMonths,                \* line 33
    monthlyRate,                \* line 35
    currentBalance,             \* line 44
    totalInvested,              \* line 45
    currentMonthlyInstallment,  \* line 49
    monthlyData,                \* line 58
    yearlyBreakdown,            \* line 59
    goalAchievedMonth,          \* line 60
    result,                     \* the returned CalculationResult, once returned
    csv,                        \* the report generateCSV(result) returns, once made
    scanned,                    \* entries of additionalLumpsums the filter of line 64 has tested
    errors,                     \* src/App.tsx line 77: the message of each field in error
    newLumpsum                  \* src/App.tsx line 84: the injection being entered

vars == <<state, pc, m, totalMonths, monthlyRate, currentBalance, totalInvested,
          currentMonthlyInstallment, monthlyData, yearlyBreakdown,
          goalAchievedMonth, result, csv, scanned, errors, newLumpsum>>

-----------------------------------------------------------------------------
(* Bounds of the enumerated inputs. *)

MaxYears == 2
MaxInjections == 2

-----------------------------------------------------------------------------
(* src/types.ts *)

StepUpFrequency == {"MONTHLY", "YEARLY"}

CalculatorMode == {"SIP", "LUMPSUM", "STEP_UP"}

Undefined == <<>>

Some(x) == <<x>>

IsDefined(o) == Len(o) = 1

\* JavaScript truthiness of an optional number: undefined and 0 are falsy.
Truthy(o) == IsDefined(o) /\ o[1] # 0

\* Mutant: an absent or zero rate falls back to a rate of 6% (x || 6).
OrZero_DefaultSix(o) == IF Truthy(o) THEN o[1] ELSE 6

\* (x || 0) of line 41.
OrZero(o) == IF Truthy(o) THEN o[1] ELSE 0

-----------------------------------------------------------------------------
(* Arithmetic helpers of the engine. *)

\* Math.ceil(x / 12) for an integer x (lines 65, 117, 125, 135).
CeilDiv12(x) == (x + 11) \div 12

\* ((x - 1) % 12) + 1 with JavaScript's remainder, whose sign is that of the
\* dividend (lines 66, 118).
JsRem(a, b) == IF a >= 0 THEN a % b ELSE -((-a) % b)

MonthInYear(x) == JsRem(x - 1, 12) + 1

\* annualInterestRate / 12 / 100 (line 35); exact for the multiples of 1200.
MonthlyRate(annualInterestRate) == (annualInterestRate \div 12) \div 100

\* Math.pow(b, e) for an integer b and a whole e >= 0.
RECURSIVE Pow(_, _)
Pow(b, e) == IF e = 0 THEN 1 ELSE b * Pow(b, e - 1)

\* The real value of lines 112 and 145: nominal / Math.pow(1 + i, twelfths/12),
\* kept as the triple (nominal, 100 * (1 + i), twelfths).  Math.pow(1, x) is 1,
\* so a zero inflation gives the nominal value itself, with base 100.
RealValue(nominal, inflationPercent, twelfths) ==
    [nominal |-> nominal, base |-> 100 + inflationPercent,
     twelfths |-> IF inflationPercent = 0 THEN 0 ELSE twelfths]

-----------------------------------------------------------------------------
(* calculateSIP, src/utils/financial.ts lines 19-156, as pure operators. *)

\* .reduce((sum, l) => sum + l.amount, 0) of line 70.
RECURSIVE SumAmounts(_)
SumAmounts(ls) ==
    IF ls = <<>> THEN 0 ELSE SumAmounts(SubSeq(ls, 1, Len(ls) - 1)) + ls[Len(ls)].amount

\* Mutant: the injection is placed by 12 * (year - 1) + month, not by its pair.
GetAdditionalLumpsumsForMonth_ByIndex(additionalLumpsums, monthIndex) ==
    LET Matches(l) == 12 * (l.year - 1) + l.month = monthIndex
    IN  SumAmounts(SelectSeq(additionalLumpsums, Matches))

\* Mutant: the year of the injection is not compared.
GetAdditionalLumpsumsForMonth_MonthOnly(additionalLumpsums, monthIndex) ==
    LET Matches(l) == l.month = MonthInYear(monthIndex)
    IN  SumAmounts(SelectSeq(additionalLumpsums, Matches))

\* Mutant: only the first matching injection is taken (find, not filter).
GetAdditionalLumpsumsForMonth_FirstMatch(additionalLumpsums, monthIndex) ==
    LET Matches(l) == l.year = CeilDiv12(monthIndex) /\ l.month = MonthInYear(monthIndex)
        found == SelectSeq(additionalLumpsums, Matches)
    IN  IF found = <<>> THEN 0 ELSE found[1].amount

\* Mutant: the scan of the list stops one entry short.
GetAdditionalLumpsumsForMonth_SkipsLast(additionalLumpsums, monthIndex) ==
    LET Matches(l) == l.year = CeilDiv12(monthIndex) /\ l.month = MonthInYear(monthIndex)
        scannedPart == SubSeq(additionalLumpsums, 1, Len(additionalLumpsums) - 1)
    IN  SumAmounts(SelectSeq(scannedPart, Matches))

\* Lines 63-71: the injections of the month with 1-based global index monthIndex.
GetAdditionalLumpsumsForMonth(additionalLumpsums, monthIndex) ==
    LET currentYear == CeilDiv12(monthIndex)
        currentMonthInYear == MonthInYear(monthIndex)
        Matches(l) == l.year = currentYear /\ l.month = currentMonthInYear
    IN  SumAmounts(SelectSeq(additionalLumpsums, Matches))

\* Mutant: the installment is not zeroed in LUMPSUM mode.
InitialInstallment_AnyMode(s) == s.monthlyInvestment

\* Line 49.
InitialInstallment(s) == IF s.mode = "LUMPSUM" THEN 0 ELSE s.monthlyInvestment

\* Mutant: line 54 is missing, the principal never enters the balance.
InitialBalance_Zero(s) == 0

\* Lines 44 and 53-54: the balance before month 1.
InitialBalance(s) == IF s.mode = "LUMPSUM" THEN s.lumpsumInvestment ELSE 0

\* Mutant: line 55 is missing.
InitialInvested_Zero(s) == 0

\* Lines 45, 53 and 55: the invested total before month 1.
InitialInvested(s) == IF s.mode = "LUMPSUM" THEN s.lumpsumInvestment ELSE 0

\* Mutant: the loop stops one month early.
LoopCondition_Strict(month, months) == month < months

\* Mutant: the body runs once before the condition is tested (do-while).
LoopCondition_DoWhile(month, months) == month = 1 \/ month <= months

\* Line 75: the loop condition.
LoopCondition(month, months) == month <= months

\* Mutant: the yearly step-up is applied in the last month of a year.
StepUp_YearEnd(installment, s, month) ==
    IF s.mode = "STEP_UP" /\ month > 1
    THEN IF s.stepUpFrequency = "MONTHLY"
         THEN installment + s.stepUpAmount
         ELSE IF month % 12 = 0 THEN installment + s.stepUpAmount ELSE installment
    ELSE installment

\* Mutant: the step-up is applied in month 1 too.
StepUp_FromFirst(installment, s, month) ==
    IF s.mode = "STEP_UP"
    THEN IF s.stepUpFrequency = "MONTHLY"
         THEN installment + s.stepUpAmount
         ELSE IF JsRem(month - 1, 12) = 0 THEN installment + s.stepUpAmount ELSE installment
    ELSE installment

\* Mutant: the mode is not tested, the step-up is applied in every mode.
StepUp_AnyMode(installment, s, month) ==
    IF month > 1
    THEN IF s.stepUpFrequency = "MONTHLY"
         THEN installment + s.stepUpAmount
         ELSE IF JsRem(month - 1, 12) = 0 THEN installment + s.stepUpAmount ELSE installment
    ELSE installment

\* Lines 77-86: the installment of month `month`, from that of the month before.
StepUp(installment, s, month) ==
    IF s.mode = "STEP_UP" /\ month > 1
    THEN IF s.stepUpFrequency = "MONTHLY"
         THEN installment + s.stepUpAmount
         ELSE IF s.stepUpFrequency = "YEARLY"
              THEN IF JsRem(month - 1, 12) = 0
                   THEN installment + s.stepUpAmount
                   ELSE installment
              ELSE installment
    ELSE installment

\* Mutant: the interest is computed on the opening balance, before the deposit.
ClosingBalance_InterestFirst(openingBalance, investmentThisMonth, rate) ==
    openingBalance + openingBalance * rate + investmentThisMonth

\* Lines 97-105: the closing balance of a month.
ClosingBalance(openingBalance, investmentThisMonth, rate) ==
    LET balanceAfterDeposit == openingBalance + investmentThisMonth
        interestForMonth == balanceAfterDeposit * rate
    IN  balanceAfterDeposit + interestForMonth

\* Mutant: the target is compared with the balance discounted by a year's
\* inflation, not with the nominal balance.
GoalCheck_Discounted(goal, s, balance, month) ==
    IF /\ Truthy(s.targetAmount)
       /\ balance * 100 >= s.targetAmount[1] * (100 + OrZero(s.inflationRate))
       /\ ~IsDefined(goal)
    THEN Some([year |-> CeilDiv12(month), month |-> MonthInYear(month)])
    ELSE goal

\* Lines 116-120: the goal check of a month.
GoalCheck(goal, s, balance, month) ==
    IF Truthy(s.targetAmount) /\ balance >= s.targetAmount[1] /\ ~IsDefined(goal)
    THEN Some([year |-> CeilDiv12(month), month |-> MonthInYear(month)])
    ELSE goal

\* Mutant: the snapshot is taken in the first month of a year.
YearEnd_StartOfYear(month, months) == (month - 1) % 12 = 0 \/ month = months

\* Line 133: whether month `month` ends with a yearly snapshot.
YearEnd(month, months) == month % 12 = 0 \/ month = months

\* Lines 33-60: the locals of calculateSIP before the loop.
InitLocals(s) ==
    [totalMonths |-> s.durationYears * 12,
     monthlyRate |-> MonthlyRate(s.annualInterestRate),
     currentBalance |-> InitialBalance(s),
     totalInvested |-> InitialInvested(s),
     currentMonthlyInstallment |-> InitialInstallment(s),
     monthlyData |-> <<>>,
     yearlyBreakdown |-> <<>>,
     goalAchievedMonth |-> Undefined]

\* Mutant: the yearly snapshot is built from the totals of the month before.
Iterate_StaleSnapshot(s, L, month) ==
    LET installment == StepUp(L.currentMonthlyInstallment, s, month)
        additionalLumpsum == GetAdditionalLumpsumsForMonth(s.additionalLumpsums, month)
        investmentThisMonth == installment + additionalLumpsum
        balance == ClosingBalance(L.currentBalance, investmentThisMonth, L.monthlyRate)
        invested == L.totalInvested + investmentThisMonth
        realValue == RealValue(balance, OrZero(s.inflationRate), month)
        goal == GoalCheck(L.goalAchievedMonth, s, balance, month)
        point == [monthIndex |-> month,
                  year |-> CeilDiv12(month),
                  invested |-> invested,
                  value |-> balance,
                  realValue |-> realValue,
                  installment |-> installment]
        snapshot == [year |-> CeilDiv12(month),
                     investedAmount |-> L.totalInvested,
                     totalValue |-> L.currentBalance,
                     realValue |-> realValue,
                     interestEarned |-> L.currentBalance - L.totalInvested]
    IN  [L EXCEPT !.currentMonthlyInstallment = installment,
                  !.currentBalance = balance,
                  !.totalInvested = invested,
                  !.goalAchievedMonth = goal,
                  !.monthlyData = Append(@, point),
                  !.yearlyBreakdown = IF YearEnd(month, L.totalMonths)
                                      THEN Append(@, snapshot) ELSE @]

\* Lines 76-141: one iteration of the loop, for month `month`.
Iterate(s, L, month) ==
    LET installment == StepUp(L.currentMonthlyInstallment, s, month)
        additionalLumpsum == GetAdditionalLumpsumsForMonth(s.additionalLumpsums, month)
        investmentThisMonth == installment + additionalLumpsum
        balance == ClosingBalance(L.currentBalance, investmentThisMonth, L.monthlyRate)
        invested == L.totalInvested + investmentThisMonth
        realValue == RealValue(balance, OrZero(s.inflationRate), month)
        goal == GoalCheck(L.goalAchievedMonth, s, balance, month)
        point == [monthIndex |-> month,
                  year |-> CeilDiv12(month),
                  invested |-> invested,
                  value |-> balance,
                  realValue |-> realValue,
                  installment |-> installment]
        snapshot == [year |-> CeilDiv12(month),
                     investedAmount |-> invested,
                     totalValue |-> balance,
                     realValue |-> realValue,
                     interestEarned |-> balance - invested]
    IN  [L EXCEPT !.currentMonthlyInstallment = installment,
                  !.currentBalance = balance,
                  !.totalInvested = invested,
                  !.goalAchievedMonth = goal,
                  !.monthlyData = Append(@, point),
                  !.yearlyBreakdown = IF YearEnd(month, L.totalMonths)
                                      THEN Append(@, snapshot) ELSE @]

\* Mutant: the final discounting counts the months as years.
Finalize_MonthsAsYears(s, L) ==
    [totalInvested |-> L.totalInvested,
     totalWealth |-> L.currentBalance,
     totalRealWealth |->
         RealValue(L.currentBalance, OrZero(s.inflationRate), 12 * L.totalMonths),
     totalGain |-> L.currentBalance - L.totalInvested,
     monthlyData |-> L.monthlyData,
     yearlyBreakdown |-> L.yearlyBreakdown,
     goalAchievedMonth |-> L.goalAchievedMonth]

\* Lines 144-155: the returned CalculationResult.
Finalize(s, L) ==
    [totalInvested |-> L.totalInvested,
     totalWealth |-> L.currentBalance,
     totalRealWealth |->
         RealValue(L.currentBalance, OrZero(s.inflationRate), 12 * s.durationYears),
     totalGain |-> L.currentBalance - L.totalInvested,
     monthlyData |-> L.monthlyData,
     yearlyBreakdown |-> L.yearlyBreakdown,
     goalAchievedMonth |-> L.goalAchievedMonth]

RECURSIVE Loop(_, _, _)
Loop(s, L, month) ==
    IF LoopCondition(month, L.totalMonths)
    THEN Loop(s, Iterate(s, L, month), month + 1)
    ELSE L

\* calculateSIP(state) as a function of its argument.
calculateSIP(s) == Finalize(s, Loop(s, InitLocals(s), 1))

-----------------------------------------------------------------------------
(* generateCSV, src/utils/financial.ts lines 158-189. *)

DigitChars == <<"0", "1", "2", "3", "4", "5", "6", "7", "8", "9">>

\* String(n) for an integer n: an optional minus sign and the decimal digits.
RECURSIVE NumberToString(_)
NumberToString(n) ==
    IF n < 0 THEN <<"-">> \o NumberToString(0 - n)
    ELSE IF n < 10 THEN <<DigitChars[n + 1]>>
    ELSE NumberToString(n \div 10) \o <<DigitChars[(n % 10) + 1]>>

\* Math.round of the quotient n / d, d # 0: floor(n / d + 1/2), ties upwards.
RoundQuotient(n, d) ==
    IF d > 0 THEN (2 * n + d) \div (2 * d) ELSE (0 - 2 * n - d) \div (0 - 2 * d)

\* `${Math.round(x)}` for a number of the loop (an integer here).
RoundedCell(x) == NumberToString(RoundQuotient(x, 1))

\* `${Math.round(x)}` for a real value (nominal, base, twelfths), that is for
\* x = nominal / Math.pow(base / 100, twelfths / 12).  Math.pow(b, 0) is 1;
\* Math.pow(0, e) is 0 for e > 0 and Infinity for e < 0; Math.pow(b, e) is NaN
\* for b < 0 and a fractional e.  The digits are computed for a whole number
\* of years and a whole base / 100; for the other real values the cell keeps
\* the expression its digits are those of.
RoundedRealCell(rv) ==
    LET e == rv.twelfths
        n == rv.nominal
    IN  IF e = 0 THEN RoundedCell(n)
        ELSE IF rv.base = 0
             THEN IF e < 0 THEN <<"0">>
                  ELSE IF n > 0 THEN <<"Infinity">>
                  ELSE IF n < 0 THEN <<"-Infinity">>
                  ELSE <<"NaN">>
        ELSE IF rv.base < 0 /\ e % 12 # 0 THEN <<"NaN">>
        ELSE IF e % 12 = 0 /\ rv.base % 100 = 0
             THEN IF e > 0
                  THEN NumberToString(RoundQuotient(n, Pow(rv.base \div 100, e \div 12)))
                  ELSE NumberToString(RoundQuotient(n * Pow(rv.base \div 100, (0 - e) \div 12), 1))
        ELSE <<"Math.round(">> \o NumberToString(n) \o <<" / Math.pow(">>
                 \o NumberToString(rv.base) \o <<" / 100, ">>
                 \o NumberToString(e) \o <<" / 12))">>

BlankLine == <<>>

TextLine(text) == << <<text>> >>

\* Line 161.
TitleLine ==
    TextLine("GrowthStack Investment Report - Generated by [Owner ID: USER-ID-OWNER-V1-SECURE-7782]")

\* Line 165.
SummaryHeader ==
    << <<"Total Invested">>, <<"Total Wealth (Nominal)">>,
       <<"Total Wealth (Real/Inflation Adjusted)">>, <<"Total Gain">> >>

\* Mutant: the gain is written in the third column, the real wealth in the last.
SummaryRow_Swapped(r) ==
    <<RoundedCell(r.totalInvested), RoundedCell(r.totalWealth),
      RoundedCell(r.totalGain), RoundedRealCell(r.totalRealWealth)>>

\* Line 166.
SummaryRow(r) ==
    <<RoundedCell(r.totalInvested), RoundedCell(r.totalWealth),
      RoundedRealCell(r.totalRealWealth), RoundedCell(r.totalGain)>>

\* Lines 169-171: the goal line and its blank line, if a goal was achieved.
GoalLines(r) ==
    IF IsDefined(r.goalAchievedMonth)
    THEN << << <<"GOAL ACHIEVED IN">>,
               <<"Year ">> \o NumberToString(r.goalAchievedMonth[1].year)
                   \o <<" Month ">> \o NumberToString(r.goalAchievedMonth[1].month) >>,
            BlankLine >>
    ELSE <<>>

\* Line 175.
YearlyHeader ==
    << <<"Year">>, <<"Invested Amount">>, <<"Interest Earned">>,
       <<"Total Value (Nominal)">>, <<"Real Value (Inflation Adjusted)">> >>

\* Line 177.
YearlyRow(row) ==
    <<NumberToString(row.year), RoundedCell(row.investedAmount),
      RoundedCell(row.interestEarned), RoundedCell(row.totalValue),
      RoundedRealCell(row.realValue)>>

\* Line 183.
MonthlyHeader ==
    << <<"Month">>, <<"Year">>, <<"Monthly Installment">>, <<"Total Invested">>,
       <<"Total Value">>, <<"Real Value">> >>

\* Line 185.
MonthlyRow(row) ==
    <<NumberToString(row.monthIndex), NumberToString(row.year),
      RoundedCell(row.installment), RoundedCell(row.invested),
      RoundedCell(row.value), RoundedRealCell(row.realValue)>>

\* Mutant: the monthly table is written before the yearly table.
generateCSV_MonthlyFirst(r) ==
    <<TitleLine, BlankLine>>
        \o <<TextLine("SUMMARY"), SummaryHeader, SummaryRow(r), BlankLine>>
        \o GoalLines(r)
        \o <<TextLine("MONTHLY BREAKDOWN"), MonthlyHeader>>
        \o [i \in 1..Len(r.monthlyData) |-> MonthlyRow(r.monthlyData[i])]
        \o <<BlankLine>>
        \o <<TextLine("YEARLY BREAKDOWN"), YearlyHeader>>
        \o [i \in 1..Len(r.yearlyBreakdown) |-> YearlyRow(r.yearlyBreakdown[i])]

\* Lines 158-189: the lines of the report, in the order they are appended.
generateCSV(r) ==
    <<TitleLine, BlankLine>>
        \o <<TextLine("SUMMARY"), SummaryHeader, SummaryRow(r), BlankLine>>
        \o GoalLines(r)
        \o <<TextLine("YEARLY BREAKDOWN"), YearlyHeader>>
        \o [i \in 1..Len(r.yearlyBreakdown) |-> YearlyRow(r.yearlyBreakdown[i])]
        \o <<BlankLine>>
        \o <<TextLine("MONTHLY BREAKDOWN"), MonthlyHeader>>
        \o [i \in 1..Len(r.monthlyData) |-> MonthlyRow(r.monthlyData[i])]

-----------------------------------------------------------------------------
(* The enumerated inputs. *)

\* Annual rates in percent whose monthly rate is an integer: 0 and 100% a month.
RateChoices == {0, 1200}

MonthlyChoices == {1, 2}

LumpsumChoices == {0, 3}

\* A negative step-up is accepted by the engine as a decrement.
StepUpChoices == {-1, 1}

\* No target, a target of zero, a target the small balances cross early, late
\* or never, and a target no enumerated run reaches.
TargetChoices == {Undefined, Some(0), Some(3), Some(2000000000)}

InflationChoices == {Undefined}

\* (year, month, amount) of the injections a list is drawn from: one that is in
\* range for every duration, one that is in range only from two years on, one
\* whose month is above 12 and one whose year is below 1.
InjectionChoices ==
    << <<1, 1, 1>>, <<2, 5, 2>>, <<1, 13, 1>>, <<0, 12, 1>> >>

InjectionIds == <<"id1", "id2", "id3", "id4">>

\* The LumpsumInjection lists of length n, entry i with the id InjectionIds[i].
\* The lists are enumerated up to the order of their entries.
InjectionLists(n) ==
    {[i \in 1..n |-> [id |-> InjectionIds[i],
                      year |-> InjectionChoices[c[i]][1],
                      month |-> InjectionChoices[c[i]][2],
                      amount |-> InjectionChoices[c[i]][3]]] :
        c \in {d \in [1..n -> 1..Len(InjectionChoices)] :
                  \A i, j \in 1..n : i <= j => d[i] <= d[j]}}

AdditionalLumpsumsChoices == UNION {InjectionLists(n) : n \in 0..MaxInjections}

\* Every value stays within TLC's 32-bit integers: a balance that doubles every
\* month is enumerated for durations of at most two years.
Representable(s) == s.annualInterestRate = 0 \/ s.durationYears <= 2

CalculatorState ==
    {s \in [mode : CalculatorMode,
            monthlyInvestment : MonthlyChoices,
            lumpsumInvestment : LumpsumChoices,
            annualInterestRate : RateChoices,
            inflationRate : InflationChoices,
            durationYears : 1..MaxYears,
            stepUpAmount : StepUpChoices,
            stepUpFrequency : StepUpFrequency,
            additionalLumpsums : AdditionalLumpsumsChoices,
            targetAmount : TargetChoices] : Representable(s)}

-----------------------------------------------------------------------------
(* One call of calculateSIP(state), statement by statement. *)

Locals ==
    [totalMonths |-> totalMonths,
     monthlyRate |-> monthlyRate,
     currentBalance |-> currentBalance,
     totalInvested |-> totalInvested,
     currentMonthlyInstallment |-> currentMonthlyInstallment,
     monthlyData |-> monthlyData,
     yearlyBreakdown |-> yearlyBreakdown,
     goalAchievedMonth |-> goalAchievedMonth]

SetLocals(L) ==
    /\ totalMonths' = L.totalMonths
    /\ monthlyRate' = L.monthlyRate
    /\ currentBalance' = L.currentBalance
    /\ totalInvested' = L.totalInvested
    /\ currentMonthlyInstallment' = L.currentMonthlyInstallment
    /\ monthlyData' = L.monthlyData
    /\ yearlyBreakdown' = L.yearlyBreakdown
    /\ goalAchievedMonth' = L.goalAchievedMonth

Init ==
    /\ state \in CalculatorState
    /\ pc = "start"
    /\ m = 0
    /\ totalMonths = 0
    /\ monthlyRate = 0
    /\ currentBalance = 0
    /\ totalInvested = 0
    /\ currentMonthlyInstallment = 0
    /\ monthlyData = <<>>
    /\ yearlyBreakdown = <<>>
    /\ goalAchievedMonth = Undefined
    /\ result = Undefined
    /\ csv = Undefined
    /\ scanned = 0
    /\ errors = <<>>
    /\ newLumpsum = [year |-> 1, month |-> 6, amount |-> 50000]

\* Lines 33-60, and `let m = 1` of line 75.
Initialize ==
    /\ pc = "start"
    /\ SetLocals(InitLocals(state))
    /\ m' = 1
    /\ pc' = "loop"
    /\ UNCHANGED <<state, result, csv, scanned, errors, newLumpsum>>

\* Mutant: the loop consumes the injection list of its input (shift, not filter).
LoopIteration_ConsumesInput ==
    /\ pc = "loop"
    /\ LoopCondition(m, totalMonths)
    /\ SetLocals(Iterate(state, Locals, m))
    /\ m' = m + 1
    /\ scanned' = scanned + Len(state.additionalLumpsums)
    /\ state' = [state EXCEPT !.additionalLumpsums =
                                  IF @ = <<>> THEN @ ELSE Tail(@)]
    /\ UNCHANGED <<pc, result, csv, errors, newLumpsum>>

\* Lines 75-142: one iteration of the loop, and its m++.  The call of line 88
\* runs additionalLumpsums.filter (line 64) over the whole list.
LoopIteration ==
    /\ pc = "loop"
    /\ LoopCondition(m, totalMonths)
    /\ SetLocals(Iterate(state, Locals, m))
    /\ m' = m + 1
    /\ scanned' = scanned + Len(state.additionalLumpsums)
    /\ UNCHANGED <<state, pc, result, csv, errors, newLumpsum>>

\* Lines 144-155: the loop is over; the result is returned.
Return ==
    /\ pc = "loop"
    /\ ~LoopCondition(m, totalMonths)
    /\ result' = Some(Finalize(state, Locals))
    /\ pc' = "done"
    /\ UNCHANGED <<state, m, totalMonths, monthlyRate, currentBalance, totalInvested,
                   currentMonthlyInstallment, monthlyData, yearlyBreakdown,
                   goalAchievedMonth, csv, scanned, errors, newLumpsum>>

\* handleDownloadCSV, src/App.tsx lines 177-178: the report of the result.
GenerateCSV ==
    /\ pc = "done"
    /\ csv = Undefined
    /\ csv' = Some(generateCSV(result[1]))
    /\ UNCHANGED <<state, pc, m, totalMonths, monthlyRate, currentBalance, totalInvested,
                   currentMonthlyInstallment, monthlyData, yearlyBreakdown,
                   goalAchievedMonth, result, scanned, errors, newLumpsum>>

Next == Initialize \/ LoopIteration \/ Return \/ GenerateCSV

Spec == Init /\ [][Next]_vars

-----------------------------------------------------------------------------
(* The engine validates nothing (it is the form's task): the same call, over *)
(* states with a zero or negative duration and with inflation rates down to  *)
(* -100% and below.                                                          *)

EdgeInflationChoices == {Undefined, Some(0), Some(100), Some(-100), Some(-200)}

EdgeAdditionalLumpsumsChoices == {<<>>} \cup InjectionLists(1)

EdgeCalculatorState ==
    {s \in [mode : CalculatorMode,
            monthlyInvestment : {1},
            lumpsumInvestment : {3},
            annualInterestRate : RateChoices,
            inflationRate : EdgeInflationChoices,
            durationYears : (0 - MaxYears)..MaxYears,
            stepUpAmount : {1},
            stepUpFrequency : {"YEARLY"},
            additionalLumpsums : EdgeAdditionalLumpsumsChoices,
            targetAmount : {Undefined, Some(3)}] : Representable(s)}

InitEdge ==
    /\ state \in EdgeCalculatorState
    /\ pc = "start"
    /\ m = 0
    /\ totalMonths = 0
    /\ monthlyRate = 0
    /\ currentBalance = 0
    /\ totalInvested = 0
    /\ currentMonthlyInstallment = 0
    /\ monthlyData = <<>>
    /\ yearlyBreakdown = <<>>
    /\ goalAchievedMonth = Undefined
    /\ result = Undefined
    /\ csv = Undefined
    /\ scanned = 0
    /\ errors = <<>>
    /\ newLumpsum = [year |-> 1, month |-> 6, amount |-> 50000]

SpecEdge == InitEdge /\ [][Next]_vars

-----------------------------------------------------------------------------
(* The same call over states that vary in their injection list above all:    *)
(* every enumerated list, in every mode, with one value for each amount.     *)

ListsCalculatorState ==
    {s \in [mode : CalculatorMode,
            monthlyInvestment : {1},
            lumpsumInvestment : {3},
            annualInterestRate : RateChoices,
            inflationRate : InflationChoices,
            durationYears : 1..MaxYears,
            stepUpAmount : {1},
            stepUpFrequency : {"YEARLY"},
            additionalLumpsums : AdditionalLumpsumsChoices,
            targetAmount : {Undefined, Some(3)}] : Representable(s)}

InitLists ==
    /\ state \in ListsCalculatorState
    /\ pc = "start"
    /\ m = 0
    /\ totalMonths = 0
    /\ monthlyRate = 0
    /\ currentBalance = 0
    /\ totalInvested = 0
    /\ currentMonthlyInstallment = 0
    /\ monthlyData = <<>>
    /\ yearlyBreakdown = <<>>
    /\ goalAchievedMonth = Undefined
    /\ result = Undefined
    /\ csv = Undefined
    /\ scanned = 0
    /\ errors = <<>>
    /\ newLumpsum = [year |-> 1, month |-> 6, amount |-> 50000]

SpecLists == InitLists /\ [][Next]_vars

-----------------------------------------------------------------------------
(* The form of src/App.tsx: the handlers that change the CalculatorState the *)
(* render passes to calculateSIP (line 93).  The run of calculateSIP itself  *)
(* is the subject of Spec; here the engine is at rest and `state` is what    *)
(* the next render passes to it.                                             *)

\* The number no comparison holds of: Number(text) for a non-numeric text.
NaN == "NaN"

\* The value a control hands to a handler: the text of a number, or any other
\* text (the id of an enumeration button).
NumericText(n) == [numeric |-> TRUE, number |-> n, text |-> ""]

OtherText(t) == [numeric |-> FALSE, number |-> 0, text |-> t]

\* Number(value) of line 97.
Number(value) == IF value.numeric THEN value.number ELSE NaN

\* Lines 64-73; inflationRate and targetAmount are absent.
DEFAULT_STATE ==
    [mode |-> "STEP_UP",
     monthlyInvestment |-> 10000,
     lumpsumInvestment |-> 100000,
     annualInterestRate |-> 12,
     inflationRate |-> Undefined,
     durationYears |-> 10,
     stepUpAmount |-> 1000,
     stepUpFrequency |-> "YEARLY",
     additionalLumpsums |-> <<>>,
     targetAmount |-> Undefined]

\* Lines 84-88 and 135.
DefaultNewLumpsum == [year |-> 1, month |-> 6, amount |-> 50000]

\* newErrors[field] = message, and delete newErrors[field].
SetError(errs, field, message) ==
    [f \in DOMAIN errs \cup {field} |-> IF f = field THEN message ELSE errs[f]]

DeleteError(errs, field) == [f \in DOMAIN errs \ {field} |-> errs[f]]

\* Lines 98-126: the errors after the validation of cleanValue for field.
Validate(errs, field, cleanValue) ==
    IF field = "annualInterestRate"
    THEN IF cleanValue < 0 \/ cleanValue > 50
         THEN SetError(errs, field, "Interest Rate must be between 0% and 50%")
         ELSE DeleteError(errs, field)
    ELSE IF field = "durationYears"
    THEN IF cleanValue < 1 \/ cleanValue > 50
         THEN SetError(errs, field, "Duration must be between 1 and 50 years")
         ELSE DeleteError(errs, field)
    ELSE IF field \in {"monthlyInvestment", "lumpsumInvestment", "stepUpAmount"}
    THEN IF cleanValue < 0
         THEN SetError(errs, field, "Amount cannot be negative")
         ELSE IF cleanValue > 100000000
              THEN SetError(errs, field, "Amount exceeds calculator limit")
              ELSE DeleteError(errs, field)
    ELSE errs

\* The fields the form calls handleInputChange for (lines 363-530).
FormFields ==
    {"mode", "lumpsumInvestment", "monthlyInvestment", "annualInterestRate",
     "durationYears", "stepUpAmount", "stepUpFrequency"}

\* The values the controls of a field pass: the id of the button for the two
\* enumerations (lines 363, 524, 530), e.target.value of a number input for
\* the others, whose min and max do not stop a typed value.
FormValues(field) ==
    IF field = "mode" THEN {OtherText(t) : t \in CalculatorMode}
    ELSE IF field = "stepUpFrequency" THEN {OtherText(t) : t \in StepUpFrequency}
    ELSE IF field = "annualInterestRate" THEN {NumericText(n) : n \in {-1, 0, 51}}
    ELSE IF field = "durationYears" THEN {NumericText(n) : n \in {0, 51}}
    ELSE IF field = "monthlyInvestment" THEN {NumericText(n) : n \in {100000001}}
    ELSE {NumericText(n) : n \in {-1}}

EngineVars ==
    <<pc, m, totalMonths, monthlyRate, currentBalance, totalInvested,
      currentMonthlyInstallment, monthlyData, yearlyBreakdown, goalAchievedMonth,
      result, csv, scanned>>

\* Lines 96-130.
handleInputChange(field, value) ==
    LET cleanValue == Number(value)
        newErrors == Validate(errors, field, cleanValue)
    IN  /\ errors' = newErrors
        /\ state' = [state EXCEPT ![field] = cleanValue]
        /\ UNCHANGED <<newLumpsum, EngineVars>>

HandleInputChange ==
    \E field \in FormFields : \E value \in FormValues(field) :
        handleInputChange(field, value)

\* Lines 132-138, when the user confirms (a refusal changes nothing).
handleReset ==
    /\ state' = DEFAULT_STATE
    /\ newLumpsum' = DefaultNewLumpsum
    /\ errors' = <<>>
    /\ UNCHANGED EngineVars

\* Lines 559, 574 and 589: the year is picked among 1..durationYears, the
\* month among 1..12, the amount is typed (its min of 0 does not stop -1).
SetNewLumpsum ==
    /\ \/ \E y \in 1..(IF state.durationYears < MaxYears
                       THEN state.durationYears ELSE MaxYears) :
              newLumpsum' = [newLumpsum EXCEPT !.year = y]
       \/ \E mo \in {6, 12} : newLumpsum' = [newLumpsum EXCEPT !.month = mo]
       \/ \E a \in {-1, 50000} : newLumpsum' = [newLumpsum EXCEPT !.amount = a]
    /\ UNCHANGED <<state, errors, EngineVars>>

\* Lines 190-199; the id is a random text, taken here to be unused so far.
addLumpsum ==
    /\ Len(state.additionalLumpsums) < MaxInjections
    /\ \E i \in 1..MaxInjections :
           /\ \A k \in 1..Len(state.additionalLumpsums) :
                  state.additionalLumpsums[k].id # InjectionIds[i]
           /\ LET newEntry == [id |-> InjectionIds[i], year |-> newLumpsum.year,
                               month |-> newLumpsum.month, amount |-> newLumpsum.amount]
              IN  state' = [state EXCEPT !.additionalLumpsums = Append(@, newEntry)]
    /\ UNCHANGED <<errors, newLumpsum, EngineVars>>

\* Lines 201-206, for the id of a listed injection.
removeLumpsum ==
    /\ \E i \in 1..Len(state.additionalLumpsums) :
           LET id == state.additionalLumpsums[i].id
               Keep(l) == l.id # id
           IN  state' = [state EXCEPT !.additionalLumpsums = SelectSeq(@, Keep)]
    /\ UNCHANGED <<errors, newLumpsum, EngineVars>>

InitApp ==
    /\ state = DEFAULT_STATE
    /\ errors = <<>>
    /\ newLumpsum = DefaultNewLumpsum
    /\ pc = "start"
    /\ m = 0
    /\ totalMonths = 0
    /\ monthlyRate = 0
    /\ currentBalance = 0
    /\ totalInvested = 0
    /\ currentMonthlyInstallment = 0
    /\ monthlyData = <<>>
    /\ yearlyBreakdown = <<>>
    /\ goalAchievedMonth = Undefined
    /\ result = Undefined
    /\ csv = Undefined
    /\ scanned = 0

NextApp ==
    HandleInputChange \/ handleReset \/ SetNewLumpsum \/ addLumpsum \/ removeLumpsum

SpecApp == InitApp /\ [][NextApp]_vars

-----------------------------------------------------------------------------
(* Vocabulary of the properties. *)

Done == pc = "done"

\* The returned CalculationResult (defined once Done).
Res == result[1]

RECURSIVE SumSeq(_)
SumSeq(xs) == IF xs = <<>> THEN 0 ELSE xs[1] + SumSeq(Tail(xs))

\* The 1-based global index of the month an injection names.
IndexOf(l) == 12 * (l.year - 1) + l.month

\* An injection whose (year, month) lies within [1, durationYears] x [1, 12].
InRange(l, s) ==
    /\ 1 <= l.year /\ l.year <= s.durationYears
    /\ 1 <= l.month /\ l.month <= 12

\* The amounts of the in-range injections of month idx, and of all months.
InjectedAt(s, idx) ==
    SumSeq([i \in 1..Len(s.additionalLumpsums) |->
               LET l == s.additionalLumpsums[i]
               IN  IF InRange(l, s) /\ IndexOf(l) = idx THEN l.amount ELSE 0])

InjectedInRange(s) ==
    SumSeq([i \in 1..Len(s.additionalLumpsums) |->
               LET l == s.additionalLumpsums[i]
               IN  IF InRange(l, s) THEN l.amount ELSE 0])

\* The balance and the invested total a run starts from.
OpeningOf(s) == IF s.mode = "LUMPSUM" THEN s.lumpsumInvestment ELSE 0

SumInstallments(md) == SumSeq([i \in 1..Len(md) |-> md[i].installment])

-----------------------------------------------------------------------------
(* C1: for a positive integer durationYears, monthlyData has exactly         *)
(* durationYears * 12 records and the monthIndex of the i-th record is i:    *)
(* 1, 2, ..., N in order, with no gap and no duplicate.                      *)
C1_MonthIndexSequence ==
    Done =>
        /\ Len(Res.monthlyData) = state.durationYears * 12
        /\ \A i \in 1..Len(Res.monthlyData) : Res.monthlyData[i].monthIndex = i

C1_Witness ==
    /\ Done
    /\ state.durationYears = 2
    /\ Len(Res.monthlyData) = 24
    /\ Res.monthlyData[24].monthIndex = 24

(* C2: the closing balance of month i is (previous closing balance +         *)
(* installment of month i + injections of month i) * (1 + monthly rate); the *)
(* opening balance of month 1 is lumpsumInvestment in LUMPSUM mode, else 0.  *)
C2_DepositBeforeInterest ==
    Done =>
        \A i \in 1..Len(Res.monthlyData) :
            LET md == Res.monthlyData
                previous == IF i = 1 THEN OpeningOf(state) ELSE md[i - 1].value
            IN  md[i].value =
                    (previous + md[i].installment + InjectedAt(state, i))
                        * (1 + state.annualInterestRate \div 1200)

C2_Witness ==
    /\ Done
    /\ state.mode = "SIP"
    /\ state.annualInterestRate = 1200
    /\ state.monthlyInvestment = 1
    /\ Len(state.additionalLumpsums) = 1
    /\ state.additionalLumpsums[1].year = 1
    /\ state.additionalLumpsums[1].month = 1
    /\ Res.monthlyData[1].value = 4
    /\ Res.monthlyData[2].value = 10

(* C3, as amended: totalInvested equals the amount the run starts from       *)
(* (lumpsumInvestment in LUMPSUM mode, 0 otherwise) plus the sum of every    *)
(* month's recorded installment plus the amounts of the in-range injections. *)
C3_TotalInvested ==
    Done =>
        Res.totalInvested =
            OpeningOf(state) + SumInstallments(Res.monthlyData) + InjectedInRange(state)

\* C3 as stated: the sum of the installments and the in-range injections only.
C3_Original ==
    Done =>
        Res.totalInvested = SumInstallments(Res.monthlyData) + InjectedInRange(state)

C3_Witness ==
    /\ Done
    /\ state.mode = "LUMPSUM"
    /\ state.lumpsumInvestment = 3
    /\ state.durationYears = 1
    /\ Len(state.additionalLumpsums) = 2
    /\ state.additionalLumpsums[1].year = 1
    /\ state.additionalLumpsums[2].year = 2
    /\ Res.totalInvested = 4

(* C4: with annualInterestRate = 0, totalWealth = totalInvested, totalGain   *)
(* = 0 and every monthly record has value = invested, in every mode and for  *)
(* every step-up setting and injection list.                                 *)
C4_ZeroRate ==
    (Done /\ state.annualInterestRate = 0) =>
        /\ Res.totalWealth = Res.totalInvested
        /\ Res.totalGain = 0
        /\ \A i \in 1..Len(Res.monthlyData) :
               Res.monthlyData[i].value = Res.monthlyData[i].invested

C4_Witness ==
    /\ Done
    /\ state.annualInterestRate = 0
    /\ state.mode = "LUMPSUM"
    /\ state.lumpsumInvestment = 3
    /\ Len(state.additionalLumpsums) >= 1
    /\ Res.totalWealth > 3

(* C5: in LUMPSUM mode with no injections, the invested field of every       *)
(* monthly record, the investedAmount of every yearly snapshot and the       *)
(* returned totalInvested all equal lumpsumInvestment.                       *)
C5_LumpsumInvestedConstant ==
    (Done /\ state.mode = "LUMPSUM" /\ state.additionalLumpsums = <<>>) =>
        /\ Res.totalInvested = state.lumpsumInvestment
        /\ \A i \in 1..Len(Res.monthlyData) :
               Res.monthlyData[i].invested = state.lumpsumInvestment
        /\ \A y \in 1..Len(Res.yearlyBreakdown) :
               Res.yearlyBreakdown[y].investedAmount = state.lumpsumInvestment

C5_Witness ==
    /\ Done
    /\ state.mode = "LUMPSUM"
    /\ state.additionalLumpsums = <<>>
    /\ state.lumpsumInvestment = 3
    /\ state.monthlyInvestment = 2
    /\ state.stepUpAmount = 1
    /\ state.stepUpFrequency = "MONTHLY"
    /\ Len(Res.monthlyData) = 24
    /\ Len(Res.yearlyBreakdown) = 2

(* C6: in STEP_UP mode with a YEARLY frequency the installment of month i  *)
(* is monthlyInvestment + stepUpAmount * floor((i - 1) / 12): constant       *)
(* within a year, raised at months 13, 25, ..., never at month 1.            *)
C6_YearlyStepUp ==
    (Done /\ state.mode = "STEP_UP" /\ state.stepUpFrequency = "YEARLY") =>
        \A i \in 1..Len(Res.monthlyData) :
            Res.monthlyData[i].installment =
                state.monthlyInvestment + state.stepUpAmount * ((i - 1) \div 12)

C6_Witness ==
    /\ Done
    /\ state.mode = "STEP_UP"
    /\ state.stepUpFrequency = "YEARLY"
    /\ state.monthlyInvestment = 2
    /\ state.stepUpAmount = 1
    /\ Len(Res.monthlyData) = 24
    /\ Res.monthlyData[1].installment = 2
    /\ Res.monthlyData[12].installment = 2
    /\ Res.monthlyData[13].installment = 3
    /\ Res.monthlyData[24].installment = 3

(* C7: in STEP_UP mode with a MONTHLY frequency the installment of month i *)
(* is monthlyInvestment + (i - 1) * stepUpAmount.                            *)
C7_MonthlyStepUp ==
    (Done /\ state.mode = "STEP_UP" /\ state.stepUpFrequency = "MONTHLY") =>
        \A i \in 1..Len(Res.monthlyData) :
            Res.monthlyData[i].installment =
                state.monthlyInvestment + (i - 1) * state.stepUpAmount

C7_Witness ==
    /\ Done
    /\ state.mode = "STEP_UP"
    /\ state.stepUpFrequency = "MONTHLY"
    /\ state.monthlyInvestment = 1
    /\ state.stepUpAmount = -1
    /\ Res.monthlyData[1].installment = 1
    /\ Res.monthlyData[2].installment = 0
    /\ Res.monthlyData[12].installment = -10

\* The months of a run whose closing nominal balance is at or above t.
Crossings(md, t) == {i \in 1..Len(md) : md[i].value >= t}

Min(S) == CHOOSE x \in S : \A y \in S : x <= y

\* {year: ceil(i / 12), month: ((i - 1) mod 12) + 1}
YearMonth(i) == [year |-> (i + 11) \div 12, month |-> ((i - 1) % 12) + 1]

(* C8: when targetAmount is set, goalAchievedMonth is the first month whose  *)
(* closing nominal balance is >= targetAmount (equality counts), as {year,   *)
(* month}, whatever the balance does afterwards.                             *)
C8_Original ==
    (Done /\ IsDefined(state.targetAmount)) =>
        LET crossings == Crossings(Res.monthlyData, state.targetAmount[1])
        IN  crossings # {} => Res.goalAchievedMonth = Some(YearMonth(Min(crossings)))

\* What the code does hold to: the same, for a target that is not zero.
GoalIsFirstCrossing ==
    (Done /\ Truthy(state.targetAmount)) =>
        LET crossings == Crossings(Res.monthlyData, state.targetAmount[1])
        IN  Res.goalAchievedMonth =
                IF crossings = {} THEN Undefined ELSE Some(YearMonth(Min(crossings)))

\* Once recorded, goalAchievedMonth is never changed by a later month.
GoalNeverChanges ==
    [][IsDefined(goalAchievedMonth) => goalAchievedMonth' = goalAchievedMonth]_vars

\* A run whose balance falls back below the target after the goal was recorded.
GoalThenDrop ==
    /\ Done
    /\ Res.goalAchievedMonth = Some([year |-> 1, month |-> 2])
    /\ Res.totalWealth < state.targetAmount[1]

(* C9: a targetAmount set to any value at or below the first month's closing *)
(* balance gives goalAchievedMonth = {year: 1, month: 1}; a targetAmount     *)
(* above the balance of every month gives no goalAchievedMonth.              *)
C9_Original ==
    (Done /\ IsDefined(state.targetAmount)) =>
        LET md == Res.monthlyData
            t == state.targetAmount[1]
        IN  /\ t <= md[1].value =>
                   Res.goalAchievedMonth = Some([year |-> 1, month |-> 1])
            /\ (\A i \in 1..Len(md) : t > md[i].value) =>
                   Res.goalAchievedMonth = Undefined

\* An injection whose (year, month) pair never occurs in the simulated range.
Inert(l, s) ==
    \/ l.year > s.durationYears
    \/ l.year < 1
    \/ l.month < 1
    \/ l.month > 12

RemoveAt(xs, i) == SubSeq(xs, 1, i - 1) \o SubSeq(xs, i + 1, Len(xs))

(* C10: an injection whose (year, month) never occurs in the simulated range *)
(* is inert: the whole result equals the result of the same state with that  *)
(* injection removed.                                                        *)
C10_InertInjection ==
    Done =>
        \A i \in 1..Len(state.additionalLumpsums) :
            Inert(state.additionalLumpsums[i], state) =>
                Res = calculateSIP([state EXCEPT !.additionalLumpsums = RemoveAt(@, i)])

C10_Witness ==
    /\ Done
    /\ state.mode = "SIP"
    /\ state.monthlyInvestment = 1
    /\ state.durationYears = 1
    /\ Len(state.additionalLumpsums) = 2
    /\ state.additionalLumpsums[1].year = 2
    /\ state.additionalLumpsums[1].month = 5
    /\ state.additionalLumpsums[2].year = 1
    /\ state.additionalLumpsums[2].month = 13
    /\ Res.totalInvested = 12

\* The deposit of month i, read off the cumulative invested amounts.
DepositOf(s, md, i) ==
    md[i].invested - (IF i = 1 THEN OpeningOf(s) ELSE md[i - 1].invested)

(* C11: every in-range injection is added to the deposit of exactly one      *)
(* month, the month 12 * (year - 1) + month; the amounts of the injections   *)
(* that share a (year, month) pair are summed; and the amount compounds from *)
(* that same month on.                                                       *)
C11_InjectionInItsMonth ==
    Done =>
        \A i \in 1..Len(Res.monthlyData) :
            LET md == Res.monthlyData
                deposit == DepositOf(state, md, i)
                opening == IF i = 1 THEN OpeningOf(state) ELSE md[i - 1].value
            IN  /\ deposit - md[i].installment = InjectedAt(state, i)
                /\ md[i].value = (opening + deposit) * (1 + state.annualInterestRate \div 1200)

C11_Witness ==
    /\ Done
    /\ state.mode = "SIP"
    /\ state.monthlyInvestment = 1
    /\ state.annualInterestRate = 1200
    /\ Len(state.additionalLumpsums) = 2
    /\ \A k \in 1..2 : /\ state.additionalLumpsums[k].year = 1
                       /\ state.additionalLumpsums[k].month = 1
    /\ Res.monthlyData[1].invested = 3
    /\ Res.monthlyData[1].value = 6
    /\ Res.monthlyData[2].invested = 4

(* C12: the cumulative invested amount is non-decreasing across months, in   *)
(* every run the engine accepts.                                             *)
C12_Original ==
    Done =>
        \A i \in 1..(Len(Res.monthlyData) - 1) :
            Res.monthlyData[i + 1].invested >= Res.monthlyData[i].invested

\* What the code does hold to: the same, when no installment is stepped down.
InvestedMonotoneWithoutDecrement ==
    (Done /\ state.stepUpAmount >= 0) =>
        \A i \in 1..(Len(Res.monthlyData) - 1) :
            Res.monthlyData[i + 1].invested >= Res.monthlyData[i].invested

(* C13: yearlyBreakdown holds exactly one snapshot per simulated year: for a *)
(* positive integer durationYears it has durationYears entries with year =   *)
(* 1, 2, ..., each taken at month 12 * year, and the last month gives one    *)
(* snapshot, not two.                                                        *)
C13_OneSnapshotPerYear ==
    /\ Len(yearlyBreakdown) = Len(monthlyData) \div 12
    /\ Done =>
          /\ Len(Res.yearlyBreakdown) = state.durationYears
          /\ \A y \in 1..Len(Res.yearlyBreakdown) :
                 /\ Res.yearlyBreakdown[y].year = y
                 /\ Res.yearlyBreakdown[y].totalValue = Res.monthlyData[12 * y].value
                 /\ Res.yearlyBreakdown[y].investedAmount = Res.monthlyData[12 * y].invested

C13_Witness ==
    /\ Done
    /\ state.durationYears = 2
    /\ state.mode = "SIP"
    /\ state.annualInterestRate = 0
    /\ state.monthlyInvestment = 1
    /\ state.additionalLumpsums = <<>>
    /\ Len(Res.yearlyBreakdown) = 2
    /\ Res.yearlyBreakdown[1].investedAmount = 12
    /\ Res.yearlyBreakdown[2].year = 2
    /\ Res.yearlyBreakdown[2].investedAmount = 24

C15_NonPositiveDuration ==
    state.durationYears <= 0 =>
        /\ monthlyData = <<>>
        /\ yearlyBreakdown = <<>>
        /\ goalAchievedMonth = Undefined
        /\ Done =>
              /\ Res.monthlyData = <<>>
              /\ Res.yearlyBreakdown = <<>>
              /\ Res.goalAchievedMonth = Undefined
              /\ Res.totalInvested = OpeningOf(state)
              /\ Res.totalWealth = OpeningOf(state)

C15_Witness ==
    /\ Done
    /\ state.durationYears = -1
    /\ state.mode = "LUMPSUM"
    /\ state.targetAmount = Some(3)
    /\ Len(state.additionalLumpsums) = 1
    /\ state.additionalLumpsums[1].year = 0
    /\ totalMonths = -12
    /\ Res.totalWealth = 3

(* C16: an inflationRate of -100 or less never reaches the real-value        *)
(* division: no realValue and no totalRealWealth is computed with a base     *)
(* 1 + inflationRate / 100 that is zero or negative.                         *)
C16_Original ==
    state.durationYears >= 1 =>
        /\ \A i \in 1..Len(monthlyData) : monthlyData[i].realValue.base > 0
        /\ Done => Res.totalRealWealth.base > 0

\* 1 + r, for the monthly rate r = annualInterestRate / 12 / 100.
GrowthFactor(s) == 1 + s.annualInterestRate \div 1200

(* C17: in LUMPSUM mode with no injections the iteration gives the closed    *)
(* form: the value of month i is lumpsumInvestment * (1 + r)^i and           *)
(* totalWealth is lumpsumInvestment * (1 + r)^(durationYears * 12).          *)
C17_LumpsumClosedForm ==
    (Done /\ state.mode = "LUMPSUM" /\ state.additionalLumpsums = <<>>) =>
        /\ Res.totalWealth =
               state.lumpsumInvestment * Pow(GrowthFactor(state), state.durationYears * 12)
        /\ \A i \in 1..Len(Res.monthlyData) :
               Res.monthlyData[i].value =
                   state.lumpsumInvestment * Pow(GrowthFactor(state), i)

C17_Witness ==
    /\ Done
    /\ state.mode = "LUMPSUM"
    /\ state.additionalLumpsums = <<>>
    /\ state.lumpsumInvestment = 3
    /\ state.annualInterestRate = 1200
    /\ state.durationYears = 1
    /\ Res.monthlyData[2].value = 12
    /\ Res.totalWealth = 12288

\* The sum for k = 1..n of payment * factor^k.
RECURSIVE AnnuityDue(_, _, _)
AnnuityDue(payment, factor, n) ==
    IF n = 0 THEN 0 ELSE payment * Pow(factor, n) + AnnuityDue(payment, factor, n - 1)

(* C18: in SIP mode with no injections the iteration gives the annuity-due   *)
(* future value: totalWealth is the sum for k = 1..n of monthlyInvestment *  *)
(* (1 + r)^k, with n = durationYears * 12.                                   *)
C18_SipAnnuityDue ==
    (Done /\ state.mode = "SIP" /\ state.additionalLumpsums = <<>>) =>
        Res.totalWealth =
            AnnuityDue(state.monthlyInvestment, GrowthFactor(state), state.durationYears * 12)

C18_Witness ==
    /\ Done
    /\ state.mode = "SIP"
    /\ state.additionalLumpsums = <<>>
    /\ state.monthlyInvestment = 1
    /\ state.annualInterestRate = 1200
    /\ state.durationYears = 1
    /\ Res.totalWealth = 8190

-----------------------------------------------------------------------------
(* The report. *)

Reported == IsDefined(csv)

\* The lines of the report (defined once Reported).
Report == csv[1]

DigitValue(ch) == CHOOSE d \in 0..9 : DigitChars[d + 1] = ch

RECURSIVE ParseDigits(_)
ParseDigits(cell) ==
    IF Len(cell) = 1 THEN DigitValue(cell[1])
    ELSE 10 * ParseDigits(SubSeq(cell, 1, Len(cell) - 1)) + DigitValue(cell[Len(cell)])

\* The integer a cell of digits, with an optional minus sign, is read as.
ParseNumber(cell) ==
    IF cell[1] = "-" THEN 0 - ParseDigits(Tail(cell)) ELSE ParseDigits(cell)

\* The lines of the report whose first cell is the given text.
LinesTitled(lines, text) ==
    {i \in 1..Len(lines) : lines[i] # <<>> /\ lines[i][1] = <<text>>}

(* C19: the report has its sections in this order: the title line, SUMMARY *)
(* (header, then one data row), the goal-achieved line if and only if        *)
(* goalAchievedMonth is present, YEARLY BREAKDOWN (header, then one row per  *)
(* yearlyBreakdown entry, in order), MONTHLY BREAKDOWN (header, then one row *)
(* per monthlyData entry, in order).                                         *)
C19_SectionOrder ==
    Reported =>
        LET lines == Report
            g == IF IsDefined(Res.goalAchievedMonth) THEN 2 ELSE 0
            ny == Len(Res.yearlyBreakdown)
            nm == Len(Res.monthlyData)
            y0 == 6 + g
            m0 == y0 + 2 + ny + 1
        IN  /\ Len(lines) = m0 + 2 + nm
            /\ LinesTitled(lines, "GrowthStack Investment Report - Generated by [Owner ID: USER-ID-OWNER-V1-SECURE-7782]") = {1}
            /\ LinesTitled(lines, "SUMMARY") = {3}
            /\ lines[4][1] = <<"Total Invested">> /\ Len(lines[4]) = 4
            /\ Len(lines[5]) = 4
            /\ ParseNumber(lines[5][1]) = Res.totalInvested
            /\ LinesTitled(lines, "GOAL ACHIEVED IN") = IF g = 2 THEN {7} ELSE {}
            /\ LinesTitled(lines, "YEARLY BREAKDOWN") = {y0 + 1}
            /\ lines[y0 + 2][1] = <<"Year">> /\ Len(lines[y0 + 2]) = 5
            /\ \A j \in 1..ny :
                   /\ Len(lines[y0 + 2 + j]) = 5
                   /\ ParseNumber(lines[y0 + 2 + j][1]) = Res.yearlyBreakdown[j].year
                   /\ ParseNumber(lines[y0 + 2 + j][4]) = Res.yearlyBreakdown[j].totalValue
            /\ LinesTitled(lines, "MONTHLY BREAKDOWN") = {m0 + 1}
            /\ lines[m0 + 2][1] = <<"Month">> /\ Len(lines[m0 + 2]) = 6
            /\ \A j \in 1..nm :
                   /\ Len(lines[m0 + 2 + j]) = 6
                   /\ ParseNumber(lines[m0 + 2 + j][1]) = Res.monthlyData[j].monthIndex
                   /\ ParseNumber(lines[m0 + 2 + j][5]) = Res.monthlyData[j].value

C19_Witness ==
    /\ Reported
    /\ IsDefined(Res.goalAchievedMonth)
    /\ state.durationYears = 2
    /\ Len(Report) = 39
    /\ Report[7][1] = <<"GOAL ACHIEVED IN">>
    /\ Report[9] = << <<"YEARLY BREAKDOWN">> >>
    /\ Report[14] = << <<"MONTHLY BREAKDOWN">> >>

\* A report without a goal line.
C19_WitnessNoGoal ==
    /\ Reported
    /\ ~IsDefined(Res.goalAchievedMonth)
    /\ Report[7] = << <<"YEARLY BREAKDOWN">> >>

IsIntegerCell(cell) ==
    LET digits == IF cell # <<>> /\ cell[1] = "-" THEN Tail(cell) ELSE cell
    IN  /\ digits # <<>>
        /\ \A k \in 1..Len(digits) : \E d \in 1..10 : DigitChars[d] = digits[k]

\* The lines a section of the report starts at: the first line after a blank
\* line.  Line 1, the title of the report, is not a section.
SectionStarts(lines) ==
    {i \in 2..Len(lines) : lines[i] # <<>> /\ lines[i - 1] = <<>>}

\* The lines of the section that starts at line i, after its first n lines.
SectionRows(lines, i, n) ==
    {j \in (i + n)..Len(lines) : \A k \in i..j : lines[k] # <<>>}

\* The section at line i has a title line, a header row and integer data rows.
WellFormedSection(lines, i) ==
    /\ Len(lines[i]) = 1
    /\ ~IsIntegerCell(lines[i][1])
    /\ i + 1 \in SectionRows(lines, i, 1)
    /\ \A c \in 1..Len(lines[i + 1]) : ~IsIntegerCell(lines[i + 1][c])
    /\ \A j \in SectionRows(lines, i, 2) :
           \A c \in 1..Len(lines[j]) : IsIntegerCell(lines[j][c])

(* C21: every section of the report starts with a title line followed by a   *)
(* header row, and every data row of it consists of integers only; the       *)
(* goal-achieved section, when present, is one of these sections.            *)
C21_Original ==
    Reported => \A i \in SectionStarts(Report) : WellFormedSection(Report, i)

\* The sections other than the goal line are well formed: SUMMARY, YEARLY
\* BREAKDOWN and MONTHLY BREAKDOWN have a title, a header and integer rows.
SectionsButGoalWellFormed ==
    Reported =>
        \A i \in SectionStarts(Report) :
            Report[i][1] # <<"GOAL ACHIEVED IN">> => WellFormedSection(Report, i)

(* C22: every yearly snapshot agrees with the monthly record of the month it *)
(* was taken at: the snapshot of year y has the invested, value and          *)
(* realValue of monthlyData[12y], and interestEarned = totalValue -          *)
(* investedAmount; the returned totalGain is totalWealth - totalInvested,    *)
(* and these are the value and invested of the last monthly record.          *)
C22_SnapshotIsMonthlyRecord ==
    /\ \A j \in 1..Len(yearlyBreakdown) :
           LET snap == yearlyBreakdown[j]
               at == 12 * snap.year
           IN  /\ snap.year = j
               /\ at <= Len(monthlyData)
               /\ snap.investedAmount = monthlyData[at].invested
               /\ snap.totalValue = monthlyData[at].value
               /\ snap.realValue = monthlyData[at].realValue
               /\ snap.interestEarned = snap.totalValue - snap.investedAmount
    /\ Done =>
           LET last == Res.monthlyData[Len(Res.monthlyData)]
           IN  /\ Res.yearlyBreakdown = yearlyBreakdown
               /\ Res.totalGain = Res.totalWealth - Res.totalInvested
               /\ Res.totalWealth = last.value
               /\ Res.totalInvested = last.invested

C22_Witness ==
    /\ Done
    /\ state.mode = "SIP"
    /\ state.monthlyInvestment = 1
    /\ state.annualInterestRate = 1200
    /\ state.durationYears = 2
    /\ state.additionalLumpsums = <<>>
    /\ Len(Res.yearlyBreakdown) = 2
    /\ Res.yearlyBreakdown[1].investedAmount = 12
    /\ Res.yearlyBreakdown[1].totalValue = 8190
    /\ Res.yearlyBreakdown[1].interestEarned = 8178
    /\ Res.monthlyData[12].value = 8190
    /\ Res.totalGain = Res.totalWealth - 24

(* C23: for durationYears >= 1 and inflationRate > -100, the returned        *)
(* totalRealWealth is the realValue of the last monthly record and of the    *)
(* last yearly snapshot: the exponent durationYears of the finalization is   *)
(* the exponent totalMonths / 12 of the last month.                          *)
C23_RealWealthIsLastRealValue ==
    (Done /\ state.durationYears >= 1 /\ OrZero(state.inflationRate) > -100) =>
        /\ Res.totalRealWealth = Res.monthlyData[Len(Res.monthlyData)].realValue
        /\ Res.totalRealWealth = Res.yearlyBreakdown[Len(Res.yearlyBreakdown)].realValue

C23_Witness ==
    /\ Done
    /\ state.durationYears = 2
    /\ state.inflationRate = Some(100)
    /\ state.mode = "LUMPSUM"
    /\ state.annualInterestRate = 0
    /\ state.additionalLumpsums = <<>>
    /\ Res.totalRealWealth = [nominal |-> 3, base |-> 200, twelfths |-> 24]
    /\ Res.monthlyData[24].realValue = Res.totalRealWealth
    /\ Res.monthlyData[23].realValue # Res.totalRealWealth

\* The real value rv is the number x itself: it is x divided by Math.pow(1, e)
\* or by Math.pow(b, 0), both of which are 1.
IsUndiscounted(rv, x) == rv.nominal = x /\ (rv.base = 100 \/ rv.twelfths = 0)

(* C24: when inflationRate is 0 or absent there is no discounting: every     *)
(* monthly record and yearly snapshot has realValue equal to its nominal     *)
(* value, and totalRealWealth equals totalWealth.                            *)
C24_NoInflationNoDiscount ==
    (state.inflationRate = Undefined \/ state.inflationRate = Some(0)) =>
        /\ \A i \in 1..Len(monthlyData) :
               IsUndiscounted(monthlyData[i].realValue, monthlyData[i].value)
        /\ \A j \in 1..Len(yearlyBreakdown) :
               IsUndiscounted(yearlyBreakdown[j].realValue, yearlyBreakdown[j].totalValue)
        /\ Done => IsUndiscounted(Res.totalRealWealth, Res.totalWealth)

C24_Witness ==
    /\ Done
    /\ state.inflationRate = Some(0)
    /\ state.durationYears = 2
    /\ state.mode = "SIP"
    /\ state.annualInterestRate = 1200
    /\ state.additionalLumpsums = <<>>
    /\ Res.totalWealth = 33554430
    /\ Res.totalRealWealth.nominal = 33554430
    /\ Res.monthlyData[13].realValue.nominal = 16382
    /\ Res.yearlyBreakdown[1].realValue.nominal = 8190

\* The application's default state has no inflationRate at all.
C24_WitnessAbsent ==
    /\ Done
    /\ state.inflationRate = Undefined
    /\ state.durationYears = 1
    /\ state.mode = "LUMPSUM"
    /\ state.annualInterestRate = 1200
    /\ Res.totalRealWealth.nominal = Res.totalWealth
    /\ Res.totalWealth >= 12288

\* The fields of a monthly record that are not real values.
NominalPart(rec) ==
    [monthIndex |-> rec.monthIndex, year |-> rec.year, invested |-> rec.invested,
     value |-> rec.value, installment |-> rec.installment]

\* Two results that agree on everything but the real values.
SameNominalResult(r1, r2) ==
    /\ r1.goalAchievedMonth = r2.goalAchievedMonth
    /\ r1.totalInvested = r2.totalInvested
    /\ r1.totalWealth = r2.totalWealth
    /\ r1.totalGain = r2.totalGain
    /\ Len(r1.monthlyData) = Len(r2.monthlyData)
    /\ \A i \in 1..Len(r1.monthlyData) :
           NominalPart(r1.monthlyData[i]) = NominalPart(r2.monthlyData[i])

(* C25: the goal check depends on the nominal balance only: two runs over    *)
(* states that differ in inflationRate alone have the same goalAchievedMonth,*)
(* the same totalInvested, totalWealth and totalGain, and the same invested, *)
(* value and installment in every monthly record.                            *)
C25_InflationLeavesNominal ==
    Done =>
        \A inflation \in EdgeInflationChoices :
            SameNominalResult(Res, calculateSIP([state EXCEPT !.inflationRate = inflation]))

C25_Witness ==
    /\ Done
    /\ state.inflationRate = Some(100)
    /\ state.mode = "SIP"
    /\ state.annualInterestRate = 0
    /\ state.durationYears = 1
    /\ state.additionalLumpsums = <<>>
    /\ Res.goalAchievedMonth = Some([year |-> 1, month |-> 3])
    /\ LET other == calculateSIP([state EXCEPT !.inflationRate = Undefined])
       IN  /\ other.goalAchievedMonth = Res.goalAchievedMonth
           /\ other.totalRealWealth # Res.totalRealWealth
           /\ other.monthlyData[3].realValue # Res.monthlyData[3].realValue

\* The states that differ from s in the step-up settings only, in the lump sum
\* only, and in the monthly investment only.
WithStepUp(s) ==
    {[s EXCEPT !.stepUpAmount = a, !.stepUpFrequency = f] :
        a \in StepUpChoices, f \in StepUpFrequency}

WithLumpsum(s) == {[s EXCEPT !.lumpsumInvestment = l] : l \in LumpsumChoices}

WithMonthly(s) == {[s EXCEPT !.monthlyInvestment = i] : i \in MonthlyChoices}

(* C26: mode isolation.  In SIP mode the installment of every month is       *)
(* monthlyInvestment and the result does not depend on stepUpAmount,         *)
(* stepUpFrequency or lumpsumInvestment; in LUMPSUM mode the installment of  *)
(* every month is 0 and the result does not depend on monthlyInvestment,     *)
(* stepUpAmount or stepUpFrequency; in STEP_UP mode the result does not      *)
(* depend on lumpsumInvestment.                                              *)
C26_ModeIsolation ==
    Done =>
        /\ state.mode = "SIP" =>
               /\ \A i \in 1..Len(Res.monthlyData) :
                      Res.monthlyData[i].installment = state.monthlyInvestment
               /\ \A s \in WithStepUp(state) \cup WithLumpsum(state) : calculateSIP(s) = Res
        /\ state.mode = "LUMPSUM" =>
               /\ \A i \in 1..Len(Res.monthlyData) : Res.monthlyData[i].installment = 0
               /\ \A s \in WithStepUp(state) \cup WithMonthly(state) : calculateSIP(s) = Res
        /\ state.mode = "STEP_UP" =>
               \A s \in WithLumpsum(state) : calculateSIP(s) = Res

\* A SIP run whose step-up settings would change the result in STEP_UP mode.
C26_Witness ==
    /\ Done
    /\ state.mode = "SIP"
    /\ state.monthlyInvestment = 1
    /\ state.stepUpAmount = 1
    /\ state.stepUpFrequency = "YEARLY"
    /\ state.lumpsumInvestment = 3
    /\ state.durationYears = 2
    /\ state.annualInterestRate = 0
    /\ state.additionalLumpsums = <<>>
    /\ Res.totalInvested = 24
    /\ calculateSIP([state EXCEPT !.mode = "STEP_UP"]).totalInvested = 36
    /\ calculateSIP([state EXCEPT !.mode = "LUMPSUM"]).totalInvested = 3

(* C27: the injection list is indexed once, before the loop, and not scanned *)
(* again inside it: however many months are simulated, the engine tests each *)
(* entry of additionalLumpsums at most once.                                 *)
C27_Original == scanned <= Len(state.additionalLumpsums)

\* What the code does: every simulated month tests every entry of the list.
ScannedEveryMonth == scanned = Len(monthlyData) * Len(state.additionalLumpsums)

-----------------------------------------------------------------------------
(* The form. *)

\* The ranges the validation of handleInputChange tests for.
Validated(s) ==
    /\ 0 <= s.annualInterestRate /\ s.annualInterestRate <= 50
    /\ 1 <= s.durationYears /\ s.durationYears <= 50
    /\ \A f \in {"monthlyInvestment", "lumpsumInvestment", "stepUpAmount"} :
           0 <= s[f] /\ s[f] <= 100000000

(* C28: after any sequence of form actions the CalculatorState passed to     *)
(* calculateSIP is validated: annualInterestRate within 0..50, durationYears *)
(* within 1..50, the three amounts within 0..100000000; a value that fails   *)
(* the validation is reported in errors and is not stored.                   *)
C28_Original == Validated(state)

\* What the code does: a value that fails the validation is stored and
\* reported, so the fields in error are the fields holding an invalid value.
InvalidIsReported ==
    /\ ("annualInterestRate" \in DOMAIN errors) =
           ~(0 <= state.annualInterestRate /\ state.annualInterestRate <= 50)
    /\ ("durationYears" \in DOMAIN errors) =
           ~(1 <= state.durationYears /\ state.durationYears <= 50)
    /\ \A f \in {"monthlyInvestment", "lumpsumInvestment", "stepUpAmount"} :
           (f \in DOMAIN errors) = ~(0 <= state[f] /\ state[f] <= 100000000)

(* C29: after the user picks a mode or a step-up frequency, state.mode is    *)
(* the picked enumeration value: state.mode is always one of SIP, LUMPSUM,   *)
(* STEP_UP and state.stepUpFrequency always one of MONTHLY, YEARLY.          *)
C29_Original ==
    /\ state.mode \in CalculatorMode
    /\ state.stepUpFrequency \in StepUpFrequency

\* What the code does: a picked mode or frequency is stored as Number(id),
\* which is NaN for each id; only the default values are enumeration values.
PickedIsNaN ==
    /\ state.mode \in {DEFAULT_STATE.mode, NaN}
    /\ state.stepUpFrequency \in {DEFAULT_STATE.stepUpFrequency, NaN}

-----------------------------------------------------------------------------
(* The injection list as a multiset. *)

\* The orderings (permutations) of 1..n.
Orderings(n) ==
    {p \in [1..n -> 1..n] : \A i, j \in 1..n : p[i] = p[j] => i = j}

\* The list ls in the order p.
Permuted(ls, p) == [i \in 1..Len(ls) |-> ls[p[i]]]

\* The list ls with fresh ids, and with one id for all its entries.
RenamedIds == <<"idA", "idB", "idC", "idD">>

Renamed(ls) == [i \in 1..Len(ls) |-> [ls[i] EXCEPT !.id = RenamedIds[i]]]

SameId(ls) == [i \in 1..Len(ls) |-> [ls[i] EXCEPT !.id = "id"]]

(* C30: the result of calculateSIP does not depend on the order of           *)
(* additionalLumpsums nor on the ids of its entries: every permutation of    *)
(* the list and every renaming of the ids gives the same monthly records,    *)
(* the same totals and the same goalAchievedMonth.                           *)
C30_OrderAndIdsIrrelevant ==
    Done =>
        LET ls == state.additionalLumpsums
        IN  /\ \A p \in Orderings(Len(ls)) :
                   calculateSIP([state EXCEPT !.additionalLumpsums = Permuted(ls, p)]) = Res
            /\ calculateSIP([state EXCEPT !.additionalLumpsums = Renamed(ls)]) = Res
            /\ calculateSIP([state EXCEPT !.additionalLumpsums = SameId(ls)]) = Res

\* Two injections of different months and amounts, both in range: their order
\* in the list is the reverse of the order of their months.
C30_Witness ==
    /\ Done
    /\ state.durationYears = 2
    /\ state.mode = "LUMPSUM"
    /\ state.lumpsumInvestment = 3
    /\ state.annualInterestRate = 0
    /\ Len(state.additionalLumpsums) = 2
    /\ state.additionalLumpsums[1].amount = 1
    /\ state.additionalLumpsums[2].amount = 2
    /\ Res.totalInvested = 6
    /\ LET swapped == <<state.additionalLumpsums[2], state.additionalLumpsums[1]>>
       IN  /\ swapped # state.additionalLumpsums
           /\ calculateSIP([state EXCEPT !.additionalLumpsums = swapped]).totalInvested = 6

====
